---- MODULE Spec2Model ----
(***************************************************************************)
(* prettybad-traits: Commutes, Propagates, TracksPropagation and the       *)
(* override utility, in the two authored variants                          *)
(*   src/index.mjs  (propagation through the getter's dynamic receiver)    *)
(*   src/index.js   (propagation into the parent captured when tracking)   *)
(* Objects live in two heaps (child nodes, parent objects).  A client      *)
(* calls the library's functions on the objects it can reach.              *)
(***************************************************************************)
EXTENDS Integers, Sequences, FiniteSets, TLC

\* ------------------------------------------------------------------ bounds
MaxNode == 5
MaxPar  == 6
MaxSym  == 3
MaxWrap == 2
MaxSteps == 3
NumVals == 3

NodeIds == 1..MaxNode
ParIds  == 1..MaxPar
Vals    == 0..(NumVals - 1)
Keys    == {"a", "b", "z"}
Tags    == {"smoke", "fire"}
Updaters == {"inc", "dbl"}

\* an updater function handed to commute
Apply(u, s) == IF u = "inc" THEN (s + 1) % NumVals ELSE (2 * s) % NumVals

\* ------------------------------------------------------------------ values
\* A JavaScript value the model distinguishes: undefined, a reference to a
\* node, a reference to a parent, each possibly wrapped by test overrides
\* (emit_smoke: result => [ smoke, result ]).
Undefined  == [tags |-> <<>>, kind |-> "none", id |-> 0]
NodeRef(i) == [tags |-> <<>>, kind |-> "node", id |-> i]
ParRef(i)  == [tags |-> <<>>, kind |-> "par",  id |-> i]
IsNode(v)  == v.kind = "node" /\ v.tags = <<>>
IsPar(v)   == v.kind = "par" /\ v.tags = <<>>

\* The function held in a node's private propagate slot.
NoProp     == [kind |-> "none", key |-> "", sym |-> 0, ctx |-> 0, tag |-> ""]
IdProp     == [kind |-> "id",   key |-> "", sym |-> 0, ctx |-> 0, tag |-> ""]
TagProp(t) == [kind |-> "f",    key |-> "", sym |-> 0, ctx |-> 0, tag |-> t]

\* (mutant) the closure captures the parent that was first tracked
create_propagate_up_snapshot(s, c) ==
  [kind |-> "up", key |-> "", sym |-> s, ctx |-> 1, tag |-> ""]

\* index.mjs create_propagate_up({ symbol, context })
create_propagate_up(s, c) ==
  [kind |-> "up", key |-> "", sym |-> s, ctx |-> c, tag |-> ""]

\* index.js propagate_up_create({ key, target })
propagate_up_create(k, t) ==
  [kind |-> "upkey", key |-> k, sym |-> 0, ctx |-> t, tag |-> ""]

\* A node: comm is the private commute slot (-1 absent, 0 _commute, w > 0
\* _commute wrapped w times by propagating_commute), hasCommute the public
\* `commute` key, prop the private propagate slot, name any other field.
BlankNode ==
  [live |-> FALSE, hasState |-> FALSE, state |-> 0, name |-> 0,
   comm |-> -1, hasCommute |-> FALSE, prop |-> NoProp]

RawNode(hs, s, n) ==
  [live |-> TRUE, hasState |-> hs, state |-> s, name |-> n,
   comm |-> -1, hasCommute |-> FALSE, prop |-> NoProp]

AbsentSlot    == [kind |-> "absent", val |-> Undefined, sym |-> 0]
DataSlot(v)   == [kind |-> "data",   val |-> v,         sym |-> 0]
GetterSlot(s) == [kind |-> "getter", val |-> Undefined, sym |-> s]

\* A parent: height is an untracked field, slots the string keys, hidden the
\* symbol-keyed private slots, ledger the value under tracking_symbol.
BlankPar ==
  [live |-> FALSE, height |-> 0, hasLedger |-> FALSE, ledger |-> <<>>,
   slots |-> [k \in Keys |-> AbsentSlot],
   hidden |-> [s \in 1..MaxSym |-> Undefined]]

VARIABLES nodes, pars, nsym, refs, steps, last, chain, installed, tracked
vars == <<nodes, pars, nsym, refs, steps, last, chain, installed, tracked>>

NumNodes(ns) == Cardinality({i \in DOMAIN ns : ns[i].live})
NumPars(ps)  == Cardinality({i \in DOMAIN ps : ps[i].live})

\* First unused object identity (objects are never freed).
FreshNode(ns) == NumNodes(ns) + 1
FreshPar(ps)  == NumPars(ps) + 1

\* console.assert logs a diagnostic when its condition is false; it does not
\* throw.
ConsoleAssert(cond) == IF cond THEN "ok" ELSE "warn"

\* ------------------------------------------------------- has(...) predicates
HasStateKey(node)     == node.hasState
HasCommutesSymbol(node)   == node.comm >= 0
HasPropagatesSymbol(node) == node.prop.kind # "none"
HasKey(par, k)        == par.slots[k].kind # "absent"

\* ------------------------------------------------------------------ Commutes
\* index.mjs Commutes: guarded by has(`state`) and not(has(Commutes.symbol)).
CommutesMjs(node) ==
  IF HasStateKey(node) /\ ~HasCommutesSymbol(node)
  THEN [node EXCEPT !.comm = 0, !.hasCommute = TRUE]
  ELSE node

\* index.js Commutes: guarded by has(`state`) only; the private slot is
\* (re)defined as _commute.
CommutesJs(node) ==
  IF HasStateKey(node)
  THEN [node EXCEPT !.comm = 0, !.hasCommute = TRUE]
  ELSE node

\* (mutant) the copy keeps only the state key
UpdateStateLossy(node, u) ==
  [node EXCEPT !.state = Apply(u, node.state), !.name = 0]

\* _commute: update(`state`)(updater)(this), a copy with one field replaced.
UpdateState(node, u) == [node EXCEPT !.state = Apply(u, node.state)]

\* ---------------------------------------------------------------- Propagates
\* _wrap_commute: Commutes.override(commute_wrapper(target[Commutes.symbol])).
WrapCommute(node) == [node EXCEPT !.comm = node.comm + 1]

\* (mutant) Propagates without its guard
PropagatesUnguarded(node) == WrapCommute([node EXCEPT !.prop = IdProp])

\* Propagates: guarded by has(Commutes.symbol); defines the propagate slot
\* as id, then wraps the private commute.
PropagatesFn(node) ==
  IF HasCommutesSymbol(node)
  THEN WrapCommute([node EXCEPT !.prop = IdProp])
  ELSE node

\* override_internal(symbol)(replacement)(target) for Propagates.symbol.
OverridePropagate(node, f) ==
  IF HasPropagatesSymbol(node) THEN [node EXCEPT !.prop = f] ELSE node

\* (mutant) propagate captured when the commute was wrapped
CapturedPropagate(node) == IdProp

\* method_of(this)(Propagates.symbol) inside propagating_commute: the slot is
\* read when the wrapped commute is called.
CurrentPropagate(node) == node.prop

\* (mutant) propagate_up writes into its context instead of a copy of it
CallPropagateInPlace(ps, f, v) ==
  CASE f.kind = "id" -> [ps |-> ps, val |-> v]
    [] f.kind = "f"  -> [ps |-> ps, val |-> [v EXCEPT !.tags = <<f.tag>> \o v.tags]]
    [] f.kind = "up" ->
         [ps |-> [ps EXCEPT ![f.ctx] = [ps[f.ctx] EXCEPT !.hidden[f.sym] = v]],
          val |-> ParRef(f.ctx)]
    [] f.kind = "upkey" ->
         [ps |-> [ps EXCEPT ![f.ctx] = [ps[f.ctx] EXCEPT !.slots[f.key] = DataSlot(v)]],
          val |-> ParRef(f.ctx)]
    [] OTHER -> [ps |-> ps, val |-> v]

\* Calling a propagate function on a value.  propagate_up copies its context
\* parent with one slot replaced (update(symbol | key)(_ => result)(context)).
CallPropagate(ps, f, v) ==
  CASE f.kind = "id" -> [ps |-> ps, val |-> v]
    [] f.kind = "f"  -> [ps |-> ps, val |-> [v EXCEPT !.tags = <<f.tag>> \o v.tags]]
    [] f.kind = "up" ->
         LET q == FreshPar(ps) IN
         [ps |-> [ps EXCEPT ![q] = [ps[f.ctx] EXCEPT !.hidden[f.sym] = v]],
          val |-> ParRef(q)]
    [] f.kind = "upkey" ->
         LET q == FreshPar(ps) IN
         [ps |-> [ps EXCEPT ![q] = [ps[f.ctx] EXCEPT !.slots[f.key] = DataSlot(v)]],
          val |-> ParRef(q)]
    [] OTHER -> [ps |-> ps, val |-> v]

\* The private commute of node n with w wrappers, called with updater u:
\* w = 0 is _commute; w > 0 is propagating_commute around the w-1 case.
\* calls lists the arguments propagate was invoked with, in order.
RECURSIVE PrivateCommute(_, _, _, _, _)
PrivateCommute(ns, ps, n, u, w) ==
  IF w = 0
  THEN LET c == FreshNode(ns) IN
       [ns |-> [ns EXCEPT ![c] = UpdateState(ns[n], u)], ps |-> ps,
        val |-> NodeRef(c), copy |-> c, calls |-> <<>>]
  ELSE LET inner == PrivateCommute(ns, ps, n, u, w - 1)
           r     == CallPropagate(inner.ps, CurrentPropagate(ns[n]), inner.val)
       IN  [inner EXCEPT !.ps = r.ps, !.val = r.val,
                         !.calls = Append(inner.calls, inner.val)]

\* _proxy_commute: this[Commutes.symbol](updater)
ProxyCommute(ns, ps, n, u) == PrivateCommute(ns, ps, n, u, ns[n].comm)

\* Parent objects one commute call on node allocates.
ParsNeeded(node) ==
  IF node.prop.kind \in {"up", "upkey"} THEN node.comm ELSE 0

\* node.commute(updater) can be evaluated: the receiver has the public key
\* and the heaps have room for the objects the call creates.
CanCommute(ns, ps, v) ==
  /\ IsNode(v)
  /\ ns[v.id].live /\ ns[v.id].hasCommute
  /\ NumNodes(ns) < MaxNode
  /\ NumPars(ps) + ParsNeeded(ns[v.id]) <= MaxPar

\* ----------------------------------------------------- index.mjs tracking
\* (mutant) the getter hands out the child without overriding its propagate
PropagateProxyStale(ns, p, sym, v) == ns

\* The proxy getter installed under a tracked key
\* (override_propagate_using_parent_context): called with receiver p, it
\* overrides the hidden child's propagate in place and returns the child.
PropagateProxy(ns, p, sym, v) ==
  IF IsNode(v)
  THEN [ns EXCEPT ![v.id] = OverridePropagate(ns[v.id], create_propagate_up(sym, p))]
  ELSE ns

\* Evaluating p[k]
ReadKey(ns, ps, p, k) ==
  LET slot == ps[p].slots[k] IN
  CASE slot.kind = "data"   -> [ns |-> ns, val |-> slot.val]
    [] slot.kind = "getter" ->
         LET v == ps[p].hidden[slot.sym] IN
         [ns |-> PropagateProxy(ns, p, slot.sym, v), val |-> v]
    [] OTHER -> [ns |-> ns, val |-> Undefined]

\* define_property.mut(tracking_symbol)(d.configurable({ v: [] })), in place
DefineTracking(par) == [par EXCEPT !.hasLedger = TRUE, !.ledger = <<>>]

\* (mutant) the entry is put in front
AddToTrackingFront(par, k, sym) ==
  [par EXCEPT !.ledger = <<[key |-> k, symbol |-> sym]>> \o par.ledger]

\* _add_to_tracking: update(tracking_symbol)(push({ key, symbol })) on a copy
AddToTracking(par, k, sym) ==
  [par EXCEPT !.ledger = Append(par.ledger, [key |-> k, symbol |-> sym])]

\* The keys of `keys` that _track_key does not skip on par.
Existing(par, keys) == SelectSeq(keys, LAMBDA k : HasKey(par, k))

\* _track_key(key)(target) of index.mjs on the fold state st.
TrackKeyMjs(st, k) ==
  IF ~HasKey(st.ps[st.target], k)
  THEN st
  ELSE LET rd  == ReadKey(st.ns, st.ps, st.target, k)
           sym == st.nsym + 1
           q   == FreshPar(st.ps)
           np  == [AddToTracking(st.ps[st.target], k, sym)
                     EXCEPT !.hidden[sym] = rd.val, !.slots[k] = GetterSlot(sym)]
       IN  [ns |-> rd.ns, ps |-> [st.ps EXCEPT ![q] = np],
            nsym |-> sym, target |-> q]

\* flip(fold(track_key))(keys): a left fold over the keys
RECURSIVE FoldMjs(_, _)
FoldMjs(st, keys) ==
  IF keys = <<>> THEN st ELSE FoldMjs(TrackKeyMjs(st, Head(keys)), Tail(keys))

\* TracksPropagation(keys)(p) of index.mjs
TracksPropagationMjs(ns, ps, sy, p, keys) ==
  FoldMjs([ns |-> ns, ps |-> [ps EXCEPT ![p] = DefineTracking(ps[p])],
           nsym |-> sy, target |-> p], keys)

\* ------------------------------------------------------ index.js tracking
\* _track_key(key)(target) of index.js: update(key)(override_propagate)(target)
TrackKeyJs(st, k) ==
  IF ~HasKey(st.ps[st.target], k)
  THEN st
  ELSE LET v  == st.ps[st.target].slots[k].val
           q  == FreshPar(st.ps)
           f  == propagate_up_create(k, st.target)
           ns2 == IF IsNode(v)
                  THEN [st.ns EXCEPT ![v.id] = OverridePropagate(st.ns[v.id], f)]
                  ELSE st.ns
           np == [st.ps[st.target] EXCEPT !.slots[k] = DataSlot(v)]
       IN  [ns |-> ns2, ps |-> [st.ps EXCEPT ![q] = np],
            nsym |-> st.nsym, target |-> q]

RECURSIVE FoldJs(_, _)
FoldJs(st, keys) ==
  IF keys = <<>> THEN st ELSE FoldJs(TrackKeyJs(st, Head(keys)), Tail(keys))

\* TracksPropagation(keys)(p) of index.js
TracksPropagationJs(ns, ps, sy, p, keys) ==
  FoldJs([ns |-> ns, ps |-> ps, nsym |-> sy, target |-> p], keys)

\* ------------------------------------------------------------ the client
\* The key lists handed to TracksPropagation
KeySeqs ==
  {<<"a">>, <<"b">>, <<"a", "b">>, <<"b", "a">>, <<"z", "a">>, <<"a", "z", "b">>}

\* The tree's untracked field (height : 100 in the Tree example)
TreeHeight == 100

\* What the last call was, what it received and what it returned.
NoLast ==
  [op |-> "init", node |-> 0, par |-> 0, key |-> "", keys |-> <<>>,
   upd |-> "", f |-> NoProp, res |-> Undefined, copy |-> 0, calls |-> <<>>,
   preNode |-> BlankNode, prePar |-> BlankPar, diag |-> "ok",
   other |-> 0]

\* The chain of commits the client makes on one lineage: the parent the
\* latest commit returned, whether every commit returned a parent, and per key
\* the state its committed updaters give and how many were committed.
NoChain ==
  [par |-> 0, ok |-> TRUE, exp |-> [k \in Keys |-> 0], n |-> [k \in Keys |-> 0]]
NoTrack == [key |-> "", target |-> 0]

\* A child built the documented way, Propagates(Commutes({ state, ... })),
\* each capability attached once.
StandardNode(node) ==
  /\ node.live /\ node.hasCommute /\ node.comm = 1
  /\ HasPropagatesSymbol(node)
Standard(ns, v) == IsNode(v) /\ StandardNode(ns[v.id])

\* A child as the client constructed it: a raw object, Commutes(raw) or
\* Propagates(Commutes(raw)).
Stages == {"raw", "commutes", "propagates"}
Built(stage, s, n) ==
  CASE stage = "raw"      -> RawNode(TRUE, s, n)
    [] stage = "commutes" -> CommutesMjs(RawNode(TRUE, s, n))
    [] OTHER              -> PropagatesFn(CommutesMjs(RawNode(TRUE, s, n)))

\* The raw parent { a: child 1, b: child 2, height: 100 }
RawTree ==
  [BlankPar EXCEPT !.live = TRUE, !.height = TreeHeight,
     !.slots = [k \in Keys |->
                  IF k = "a" THEN DataSlot(NodeRef(1))
                  ELSE IF k = "b" THEN DataSlot(NodeRef(2))
                  ELSE AbsentSlot]]

\* installed[n]: the propagate function most recently installed on n, and
\* the one before it.
Installed(inst, ns) ==
  [i \in NodeIds |->
     IF inst[i].cur = ns[i].prop THEN inst[i]
     ELSE [cur |-> ns[i].prop, prev |-> inst[i].cur]]

Ghosts ==
  /\ nsym = 0
  /\ refs = {1}
  /\ steps = 0
  /\ last = NoLast
  /\ chain = NoChain
  /\ tracked = [i \in NodeIds |-> NoTrack]
  /\ installed = [i \in NodeIds |-> [cur |-> nodes[i].prop, prev |-> NoProp]]

\* Node-level clients start from two objects at any stage of construction,
\* with or without a state key.
InitNode ==
  \E h1 \in BOOLEAN, g1 \in Stages, g2 \in Stages, s1 \in Vals :
    /\ (~h1 => (s1 = 0 /\ g1 = "raw"))
    /\ nodes = [i \in NodeIds |->
                  IF i = 1 THEN (IF h1 THEN Built(g1, s1, 1) ELSE RawNode(FALSE, 0, 1))
                  ELSE IF i = 2 THEN Built(g2, 2, 2) ELSE BlankNode]
    /\ pars = [i \in ParIds |-> IF i = 1 THEN RawTree ELSE BlankPar]
    /\ Ghosts

\* Tree clients start from the raw parent over two constructed children.
Init ==
  \E g1 \in Stages, g2 \in Stages :
    /\ nodes = [i \in NodeIds |->
                  IF i = 1 THEN Built(g1, 1, 1)
                  ELSE IF i = 2 THEN Built(g2, 2, 2) ELSE BlankNode]
    /\ pars = [i \in ParIds |-> IF i = 1 THEN RawTree ELSE BlankPar]
    /\ Ghosts

\* One more call made by the client.
Tick == steps < MaxSteps /\ steps' = steps + 1

\* The parent references the client holds after a call returned v.
Learn(v) == IF IsPar(v) THEN refs \cup {v.id} ELSE refs

\* Commutes(node n), index.mjs
Commutes(n) ==
  /\ nodes[n].live
  /\ nodes' = [nodes EXCEPT ![n] = CommutesMjs(nodes[n])]
  /\ last' = [NoLast EXCEPT !.op = "Commutes", !.node = n, !.res = NodeRef(n),
                !.preNode = nodes[n],
                !.diag = IF ConsoleAssert(HasStateKey(nodes[n])) = "ok"
                         THEN ConsoleAssert(~HasCommutesSymbol(nodes[n]))
                         ELSE "warn"]
  /\ Tick
  /\ UNCHANGED <<pars, nsym, refs, chain, installed, tracked>>

\* Commutes(node n), index.js
JsCommutes(n) ==
  /\ nodes[n].live
  /\ nodes' = [nodes EXCEPT ![n] = CommutesJs(nodes[n])]
  /\ last' = [NoLast EXCEPT !.op = "Commutes", !.node = n, !.res = NodeRef(n),
                !.preNode = nodes[n],
                !.diag = ConsoleAssert(HasStateKey(nodes[n]))]
  /\ tracked' = [tracked EXCEPT ![n] = NoTrack]
  /\ Tick
  /\ UNCHANGED <<pars, nsym, refs, chain, installed>>

\* Propagates(node n); a capability attached again ends the chain of a
\* documented tree
Propagates(n) ==
  /\ nodes[n].live
  /\ nodes[n].comm < MaxWrap
  /\ nodes' = [nodes EXCEPT ![n] = PropagatesFn(nodes[n])]
  /\ last' = [NoLast EXCEPT !.op = "Propagates", !.node = n, !.res = NodeRef(n),
                !.preNode = nodes[n],
                !.diag = ConsoleAssert(HasCommutesSymbol(nodes[n]))]
  /\ installed' = [installed EXCEPT ![n] =
                      IF HasCommutesSymbol(nodes[n])
                      THEN [cur |-> IdProp, prev |-> @.cur] ELSE @]
  /\ tracked' = [tracked EXCEPT ![n] = NoTrack]
  /\ Tick
  /\ chain' = NoChain
  /\ UNCHANGED <<pars, nsym, refs>>

\* Propagates.override(emit)(node n), emit = result => [ t, result ]
Override(n, t) ==
  /\ nodes[n].live
  /\ nodes' = [nodes EXCEPT ![n] = OverridePropagate(nodes[n], TagProp(t))]
  /\ last' = [NoLast EXCEPT !.op = "override", !.node = n, !.res = NodeRef(n),
                !.f = TagProp(t), !.preNode = nodes[n],
                !.diag = ConsoleAssert(HasPropagatesSymbol(nodes[n]))]
  /\ installed' = [installed EXCEPT ![n] =
                      IF HasPropagatesSymbol(nodes[n])
                      THEN [cur |-> TagProp(t), prev |-> @.cur] ELSE @]
  /\ tracked' = [tracked EXCEPT ![n] = NoTrack]
  /\ Tick
  /\ UNCHANGED <<pars, nsym, refs, chain>>

\* The chain of commits of a lineage starts at a parent whose keys a and b
\* are both tracked and hold documented children.
StartsChain(ns, ps, q) ==
  \A k \in {"a", "b"} :
    /\ ps[q].slots[k].kind = "getter"
    /\ Standard(ns, ps[q].hidden[ps[q].slots[k].sym])

ChildState(ns, ps, q, k) ==
  IF ps[q].slots[k].kind = "getter" /\ IsNode(ps[q].hidden[ps[q].slots[k].sym])
  THEN ns[ps[q].hidden[ps[q].slots[k].sym].id].state
  ELSE -1

\* TracksPropagation(keys)(parent p), index.mjs
Track(p, keys) ==
  /\ p \in refs
  /\ NumPars(pars) + Len(Existing(pars[p], keys)) <= MaxPar
  /\ nsym + Len(Existing(pars[p], keys)) <= MaxSym
  /\ \E r \in {TracksPropagationMjs(nodes, pars, nsym, p, keys)} :
     /\ nodes' = r.ns
     /\ pars' = r.ps
     /\ nsym' = r.nsym
     /\ refs' = refs \cup {r.target}
     /\ last' = [NoLast EXCEPT !.op = "track", !.par = p, !.keys = keys,
                   !.res = ParRef(r.target), !.prePar = pars[p],
                   !.diag = IF \A i \in 1..Len(keys) : HasKey(pars[p], keys[i])
                            THEN "ok" ELSE "warn"]
     /\ installed' = Installed(installed, r.ns)
     /\ chain' = IF StartsChain(r.ns, r.ps, r.target)
                 THEN [par |-> r.target, ok |-> TRUE,
                       exp |-> [k \in Keys |-> ChildState(r.ns, r.ps, r.target, k)],
                       n |-> [k \in Keys |-> 0]]
                 ELSE chain
  /\ Tick
  /\ UNCHANGED tracked

\* The children whose propagate the index.js fold overrides, with the key
\* and the parent _track_key received for each.
RECURSIVE TrackedAfter(_, _, _)
TrackedAfter(tr, st, keys) ==
  IF keys = <<>> THEN tr
  ELSE LET k == Head(keys)
           v == st.ps[st.target].slots[k].val
           hit == /\ HasKey(st.ps[st.target], k)
                  /\ IsNode(v)
                  /\ HasPropagatesSymbol(st.ns[v.id])
       IN  TrackedAfter(
             IF hit THEN [tr EXCEPT ![v.id] = [key |-> k, target |-> st.target]]
             ELSE tr,
             TrackKeyJs(st, k), Tail(keys))

\* TracksPropagation(keys)(parent p), index.js
JsTrack(p, keys) ==
  /\ p \in refs
  /\ NumPars(pars) + Len(Existing(pars[p], keys)) <= MaxPar
  /\ \E r \in {TracksPropagationJs(nodes, pars, nsym, p, keys)} :
     /\ nodes' = r.ns
     /\ pars' = r.ps
     /\ refs' = refs \cup {r.target}
     /\ last' = [NoLast EXCEPT !.op = "track", !.par = p, !.keys = keys,
                   !.res = ParRef(r.target), !.prePar = pars[p],
                   !.diag = IF \A i \in 1..Len(keys) : HasKey(pars[p], keys[i])
                            THEN "ok" ELSE "warn"]
     /\ installed' = Installed(installed, r.ns)
  /\ tracked' = TrackedAfter(tracked,
                   [ns |-> nodes, ps |-> pars, nsym |-> nsym, target |-> p], keys)
  /\ Tick
  /\ UNCHANGED <<nsym, chain>>

\* p[k] evaluated for its value; on a tracked key the getter runs.
Read(p, k) ==
  /\ p \in refs
  /\ pars[p].slots[k].kind = "getter"
  /\ \E rd \in {ReadKey(nodes, pars, p, k)} :
     /\ nodes' = rd.ns
     /\ installed' = Installed(installed, rd.ns)
     /\ last' = [NoLast EXCEPT !.op = "read"]
  /\ Tick
  /\ UNCHANGED <<pars, nsym, refs, chain, tracked>>

\* The record of one commute call: receiver n (as ns holds it when commute
\* is entered), updater u, outcome r.
CommitLast(op, ns, n, p, k, u, r) ==
  [NoLast EXCEPT !.op = op, !.node = n, !.par = p, !.key = k, !.upd = u,
     !.f = ns[n].prop, !.res = r.val, !.copy = r.copy, !.calls = r.calls,
     !.preNode = nodes[n], !.prePar = IF p = 0 THEN BlankPar ELSE pars[p]]

\* n.commute(u) on a node the client holds directly
CommitNode(n, u) ==
  /\ CanCommute(nodes, pars, NodeRef(n))
  /\ \E r \in {ProxyCommute(nodes, pars, n, u)} :
     /\ nodes' = r.ns
     /\ pars' = r.ps
     /\ refs' = Learn(r.val)
     /\ last' = [CommitLast("commitNode", nodes, n, 0, "", u, r)
                   EXCEPT !.f = installed[n].cur]
     /\ installed' = [installed EXCEPT ![r.copy] = installed[n]]
     /\ tracked' = [tracked EXCEPT ![r.copy] = tracked[n]]
  /\ Tick
  /\ UNCHANGED <<nsym, chain>>

\* p[k].commute(u), one expression
CommitVia(p, k, u) ==
  /\ p \in refs
  /\ \E rd \in {ReadKey(nodes, pars, p, k)} :
     /\ CanCommute(rd.ns, pars, rd.val)
     /\ \E n \in {rd.val.id} : \E r \in {ProxyCommute(rd.ns, pars, n, u)} :
        /\ nodes' = r.ns
        /\ pars' = r.ps
        /\ refs' = Learn(r.val)
        /\ last' = CommitLast("commitVia", rd.ns, n, p, k, u, r)
        /\ installed' = [Installed(installed, rd.ns) EXCEPT
                           ![r.copy] = Installed(installed, rd.ns)[n]]
        /\ tracked' = [tracked EXCEPT ![r.copy] = tracked[n]]
        /\ chain' = IF p = chain.par /\ k \in {"a", "b"}
                    THEN [par |-> IF IsPar(r.val) THEN r.val.id ELSE chain.par,
                          ok |-> chain.ok /\ IsPar(r.val),
                          exp |-> [chain.exp EXCEPT ![k] = Apply(u, @)],
                          n |-> [chain.n EXCEPT ![k] = @ + 1]]
                    ELSE chain
  /\ Tick
  /\ UNCHANGED nsym

\* x = p[k]; q[k2]; x.commute(u): a read of another snapshot's tracked key
\* between the read of the child and the commit on it
CommitAfterRead(p, k, q, k2, u) ==
  /\ p \in refs /\ q \in refs /\ q # p
  /\ pars[p].slots[k].kind = "getter"
  /\ pars[q].slots[k2].kind = "getter"
  /\ \E rd \in {ReadKey(nodes, pars, p, k)} :
     \E rd2 \in {ReadKey(rd.ns, pars, q, k2)} :
     /\ CanCommute(rd2.ns, pars, rd.val)
     /\ \E n \in {rd.val.id} : \E r \in {ProxyCommute(rd2.ns, pars, n, u)} :
        /\ nodes' = r.ns
        /\ pars' = r.ps
        /\ refs' = Learn(r.val)
        /\ last' = [CommitLast("commitAfterRead", rd2.ns, n, p, k, u, r)
                      EXCEPT !.other = q]
        /\ installed' = [Installed(installed, rd2.ns) EXCEPT
                           ![r.copy] = Installed(installed, rd2.ns)[n]]
        /\ tracked' = [tracked EXCEPT ![r.copy] = tracked[n]]
  /\ Tick
  /\ UNCHANGED <<nsym, chain>>

\* A client of index.mjs working on a tree
Next ==
  \/ \E n \in NodeIds : Propagates(n)
  \/ \E n \in NodeIds, t \in Tags : Override(n, t)
  \/ \E p \in ParIds, keys \in KeySeqs : Track(p, keys)
  \/ \E p \in ParIds, k \in Keys : Read(p, k)
  \/ \E p \in ParIds, k \in Keys, u \in Updaters : CommitVia(p, k, u)
  \/ \E p \in ParIds, q \in ParIds, k \in Keys, k2 \in Keys, u \in Updaters :
       CommitAfterRead(p, k, q, k2, u)

Spec == Init /\ [][Next]_vars

\* A client of index.mjs working on single nodes
NextNode ==
  \/ \E n \in NodeIds : Commutes(n)
  \/ \E n \in NodeIds : Propagates(n)
  \/ \E n \in NodeIds, t \in Tags : Override(n, t)
  \/ \E n \in NodeIds, u \in Updaters : CommitNode(n, u)

SpecNode == InitNode /\ [][NextNode]_vars

\* A client of index.js working on a tree
NextJs ==
  \/ \E n \in NodeIds : JsCommutes(n)
  \/ \E n \in NodeIds : Propagates(n)
  \/ \E n \in NodeIds, t \in Tags : Override(n, t)
  \/ \E p \in ParIds, keys \in KeySeqs : JsTrack(p, keys)
  \/ \E p \in ParIds, k \in Keys, u \in Updaters : CommitVia(p, k, u)

SpecJs == Init /\ [][NextJs]_vars

\* ================================================================ claims
LedgerKeys(par) == [i \in 1..Len(par.ledger) |-> par.ledger[i].key]

\* The last call was p[k].commute(u) on a tracked key k holding a
\* Propagates(Commutes(...)) child.
TrackedCommit(op) ==
  /\ last.op = op
  /\ last.prePar.slots[last.key].kind = "getter"
  /\ StandardNode(last.preNode)

\* The parent P with only the hidden slot behind key k replaced by the
\* committed child.
OnlySlotReplaced(P, k, child) == [P EXCEPT !.hidden[P.slots[k].sym] = child]

Room == NumNodes(nodes) < MaxNode /\ NumPars(pars) < MaxPar

\* C1: in index.mjs, P[k].commute(u) on a tracked Propagates(Commutes(...))
\* child returns a new parent equal to P except that slot k holds a child
\* whose state is u(old state); P and its child are not altered (P[k] still
\* reads the old child and state), and committing from P again gives the
\* same result.
C1_CommitReturnsNewParent ==
  TrackedCommit("commitVia") =>
    /\ IsPar(last.res) /\ last.res.id # last.par
    /\ pars[last.res.id] =
         OnlySlotReplaced(last.prePar, last.key, NodeRef(last.copy))
    /\ last.copy # last.node
    /\ nodes[last.copy].state = Apply(last.upd, last.preNode.state)
    /\ nodes[last.copy].name = last.preNode.name
    /\ pars[last.par] = last.prePar
    /\ nodes[last.node].state = last.preNode.state
    /\ ReadKey(nodes, pars, last.par, last.key).val = NodeRef(last.node)
    /\ Room =>
         LET rd == ReadKey(nodes, pars, last.par, last.key)
             r2 == ProxyCommute(rd.ns, pars, last.node, last.upd)
         IN  /\ IsPar(r2.val)
             /\ OnlySlotReplaced(r2.ps[r2.val.id], last.key, Undefined) =
                  OnlySlotReplaced(pars[last.res.id], last.key, Undefined)
             /\ r2.ns[r2.copy] = nodes[last.copy]

C1_Witness ==
  /\ TrackedCommit("commitVia")
  /\ Room
  /\ last.prePar.slots["a"].kind = "getter"
  /\ last.prePar.slots["b"].kind = "getter"
  /\ last.prePar.height = TreeHeight
  /\ IsPar(last.res)
  /\ nodes[last.copy].state # last.preNode.state

\* C2: along a chain of commits, each made on a child read from the parent
\* the previous commit returned, the state under a is a's committed
\* updaters applied in order to a's initial state, and likewise b: a commit
\* on one sibling never alters the other.
C2_NoCrossTalk ==
  chain.par # 0 =>
    /\ chain.ok
    /\ \A k \in {"a", "b"} :
         ChildState(nodes, pars, chain.par, k) = chain.exp[k]

C2_Witness ==
  /\ chain.par # 0
  /\ chain.n["a"] >= 1 /\ chain.n["b"] >= 1
  /\ last.op = "commitVia" /\ last.res = ParRef(chain.par)

\* C3: commute(u) on a node with Commutes attached, with or without
\* Propagates and tracked by no parent, returns a new node whose state is
\* u(old state) and whose other fields are the receiver's; the receiver is
\* unchanged.  The propagating node answers as the Commutes-only node does.
C3_UntrackedCommute ==
  (last.op = "commitNode" /\ last.preNode.prop.kind \in {"none", "id"}) =>
    /\ last.res = NodeRef(last.copy)
    /\ last.copy # last.node
    /\ nodes[last.copy] =
         [last.preNode EXCEPT !.state = Apply(last.upd, last.preNode.state)]
    /\ nodes[last.node] = last.preNode

C3_Witness ==
  /\ last.op = "commitNode"
  /\ last.preNode.prop.kind = "id" /\ last.preNode.comm >= 1
  /\ nodes[last.copy].state # last.preNode.state

\* C4: the wrapped commute reads propagate when it is called: once
\* Propagates.override(f) was applied to a Propagates(Commutes(...)) node,
\* commute(u) returns f(the node the state update produced), f being the
\* override installed most recently.
C4_OverrideReadAtCallTime ==
  (last.op = "commitNode" /\ last.preNode.comm = 1 /\ last.f.kind = "f") =>
    /\ last.res = [tags |-> <<last.f.tag>>, kind |-> "node", id |-> last.copy]
    /\ nodes[last.copy].state = Apply(last.upd, last.preNode.state)

C4_Witness ==
  /\ last.op = "commitNode" /\ last.preNode.comm = 1
  /\ last.f.kind = "f"
  /\ installed[last.node].prev.kind = "f"
  /\ installed[last.node].prev.tag # last.f.tag
  /\ last.res.tags = <<last.f.tag>>

\* C5: Commutes on a node without a state key, and Propagates on a node
\* without the commute capability, return the input node itself, with no
\* commute key, no private commute slot and no propagate slot added; a
\* diagnostic is logged and nothing is thrown.
C5_SoftNoOp ==
  (\/ (last.op = "Commutes" /\ ~last.preNode.hasState)
   \/ (last.op = "Propagates" /\ last.preNode.comm < 0)) =>
    /\ last.res = NodeRef(last.node)
    /\ nodes[last.node] = last.preNode
    /\ ~nodes[last.node].hasCommute
    /\ nodes[last.node].comm = -1
    /\ nodes[last.node].prop = NoProp
    /\ last.diag = "warn"

C5_Witness ==
  /\ last.op = "Propagates"
  /\ ~last.preNode.hasState /\ last.preNode.comm < 0
  /\ nodes[last.node] = last.preNode

\* C6: after TracksPropagation(keys)(parent) the ledger's keys are the listed
\* keys that exist on the parent, in the order listed; an absent key adds
\* no entry.
C6_LedgerOrder ==
  last.op = "track" =>
    /\ IsPar(last.res)
    /\ pars[last.res.id].hasLedger
    /\ LedgerKeys(pars[last.res.id]) =
         SelectSeq(last.keys, LAMBDA k : last.prePar.slots[k].kind # "absent")

C6_Witness ==
  /\ last.op = "track"
  /\ last.keys = <<"a", "z", "b">>
  /\ LedgerKeys(pars[last.res.id]) = <<"a", "b">>

\* C7: in index.mjs a commit on a child reference read from key k of
\* snapshot P returns a copy of P with only slot k replaced, whatever read
\* of a tracked key on another snapshot of the same lineage (same tracking,
\* other committed children) happens between that read and the commit.
SameLineage(P, Q) == P.ledger = Q.ledger /\ P.slots = Q.slots

C7_NoAliasing ==
  (/\ TrackedCommit("commitAfterRead")
   /\ SameLineage(last.prePar, pars[last.other])) =>
    /\ IsPar(last.res)
    /\ pars[last.res.id] =
         OnlySlotReplaced(last.prePar, last.key, NodeRef(last.copy))

\* C8: in index.js a commit on the child under tracked key k returns a copy
\* of the parent _track_key received when k was tracked, with only slot k
\* replaced by the committed child, for the first commit and for every
\* later one, whichever keys were committed before.
C8_SnapshotCommit ==
  (/\ last.op = "commitVia"
   /\ StandardNode(last.preNode)
   /\ tracked[last.node].target # 0
   /\ tracked[last.node].key = last.key) =>
    /\ IsPar(last.res)
    /\ last.res.id # tracked[last.node].target
    /\ pars[last.res.id] =
         [pars[tracked[last.node].target] EXCEPT
            !.slots[last.key] = DataSlot(NodeRef(last.copy))]
    /\ nodes[last.copy].state = Apply(last.upd, last.preNode.state)

\* a later commit, made on a parent an earlier commit returned, on the key
\* that commit did not touch
C8_Witness ==
  /\ last.op = "commitVia"
  /\ StandardNode(last.preNode)
  /\ tracked[last.node].target # 0
  /\ tracked[last.node].key = last.key
  /\ last.par # tracked[last.node].target
  /\ last.prePar # pars[tracked[last.node].target]
  /\ IsPar(last.res)
  /\ \E k \in Keys : k # last.key /\
       pars[last.res.id].slots[k] # last.prePar.slots[k]

\* C9: applying TracksPropagation to an already tracked parent extends its
\* ledger, so every key with a propagation getter installed on a parent has
\* an entry in that parent's ledger.
C9_LedgerExtends ==
  /\ last.op = "track" =>
       LedgerKeys(pars[last.res.id]) =
         LedgerKeys(last.prePar) \o
           SelectSeq(last.keys, LAMBDA k : last.prePar.slots[k].kind # "absent")
  /\ \A p \in refs : \A k \in Keys :
       pars[p].slots[k].kind = "getter" =>
         \E i \in 1..Len(pars[p].ledger) : pars[p].ledger[i].key = k

\* C10: on a commit-capable node to which Propagates was applied one or more
\* times, one commute(u) call invokes propagate exactly once, with the node
\* the plain state update produced.
C10_PropagateOnce ==
  (last.op = "commitNode" /\ last.preNode.comm >= 1) =>
    /\ Len(last.calls) = 1
    /\ last.calls[1] = NodeRef(last.copy)

====
